---- MODULE Spec2Model ----
(***************************************************************************)
(* Model of musubi_flux_klein_lora_trainer.py: the node function           *)
(* MusubiFluxKleinLoraTrainer.train_flux_klein_lora, the module-level      *)
(* LoRA cache and its persisted store, the fingerprint _compute_image_hash *)
(* and the three child processes the function runs one after the other.    *)
(*                                                                         *)
(* Conventions.  Text is a sequence of one-character strings, so that      *)
(* str.strip and "|".join are computed and not assumed.  An image tensor   *)
(* is a sequence of pixel values in thousandths (0..1000).  A value that   *)
(* Python leaves None is a value of the same shape that stands for it      *)
(* (NoImage, NonePath, NoFile, ...).  A file of the output folder is a     *)
(* record [base, ctr, alt]: <base>[_<ctr>][-<alt>].safetensors, with 0 for  *)
(* a part that is not there.                                               *)
(***************************************************************************)
EXTENDS Integers, Sequences, FiniteSets, TLC

None == "None"

\* None where an image tensor, a path, a modification time is expected.
NoImage == << >>

EmptyPath == << >>

NonePath == <<None>>

Missing == 0 - 1

Range(s) == {s[i] : i \in DOMAIN s}

RECURSIVE Concat(_)
Concat(ss) == IF ss = <<>> THEN <<>> ELSE Head(ss) \o Concat(Tail(ss))

(***************************************************************************)
(* Catalogs                                                                *)
(***************************************************************************)

\* The two dialects of the variant catalog (token: docstring l.11, ceilings:
\* the blocks_to_swap tooltip l.276).
FLUX_KLEIN_VARIANTS ==
    [v \in {"Klein Base 4B", "Klein Base 9B"} |->
        IF v = "Klein Base 4B"
        THEN [model_version |-> "klein-base-4b", max_blocks_to_swap |-> 13]
        ELSE [model_version |-> "klein-base-9b", max_blocks_to_swap |-> 16]]

\* FLUX_KLEIN_VARIANTS.get(model_variant, FLUX_KLEIN_VARIANTS["Klein Base 4B"])
variant_config(model_variant) ==
    IF model_variant \in DOMAIN FLUX_KLEIN_VARIANTS
    THEN FLUX_KLEIN_VARIANTS[model_variant]
    ELSE FLUX_KLEIN_VARIANTS["Klein Base 4B"]

\* l.343-345: blocks_to_swap is capped to the variant's maximum.
cap_blocks_to_swap(blocks_to_swap, max_blocks) ==
    IF blocks_to_swap > max_blocks THEN max_blocks ELSE blocks_to_swap

(***************************************************************************)
(* Model files: _get_model_path over ComfyUI's folders                     *)
(***************************************************************************)

\* The model files present in ComfyUI's folders, as <<folder_type, name>>.
ModelStore ==
    { <<"diffusion_models", "klein.safetensors">>,
      <<"vae", "ae.safetensors">>,
      <<"text_encoders", "qwen3.safetensors">>,
      <<"clip", "qwen3_clip.safetensors">> }

\* _get_model_path: "" for an empty name, else folder_paths.get_full_path,
\* which is None for a name the folder does not hold.
get_model_path(name, folder_type) ==
    IF name = "" THEN EmptyPath
    ELSE IF <<folder_type, name>> \in ModelStore THEN <<folder_type, name>>
    ELSE NonePath

\* os.path.exists of a resolved model path; "" and None are falsy before it.
model_exists(path) == path # EmptyPath /\ path # NonePath /\ path \in ModelStore

\* l.354-356: text_encoders first, then clip.
text_encoder_path_of(text_encoder) ==
    LET p == get_model_path(text_encoder, "text_encoders")
    IN  IF ~model_exists(p) THEN get_model_path(text_encoder, "clip") ELSE p

(***************************************************************************)
(* Text                                                                    *)
(***************************************************************************)

RECURSIVE lstrip(_)
lstrip(s) == IF s # <<>> /\ Head(s) = " " THEN lstrip(Tail(s)) ELSE s

RECURSIVE rstrip(_)
rstrip(s) ==
    IF s # <<>> /\ s[Len(s)] = " " THEN rstrip(SubSeq(s, 1, Len(s) - 1)) ELSE s

\* str.strip() left out: the text is taken as read.
strip_off(s) == s

\* str.strip(), the space standing for any white space
strip(s) == rstrip(lstrip(s))

\* "|".join(captions)
RECURSIVE join(_)
join(captions) ==
    IF captions = <<>> THEN <<>>
    ELSE IF Len(captions) = 1 THEN captions[1]
    ELSE captions[1] \o <<"|">> \o join(Tail(captions))

(***************************************************************************)
(* File names of the source folder                                         *)
(***************************************************************************)

\* A file name is <<stem, extension>>.  With stems of one length, sorted()
\* orders names by stem and then by extension, in code-point order.
StemRank == [s \in {"a", "b", "c"} |-> CASE s = "a" -> 1 [] s = "b" -> 2 [] OTHER -> 3]

ExtRank ==
    [e \in {".BMP", ".JPG", ".PNG", ".bmp", ".gif", ".jpeg", ".jpg", ".png", ".txt", ".webp"} |->
        CASE e = ".BMP" -> 1 [] e = ".JPG" -> 2 [] e = ".PNG" -> 3 [] e = ".bmp" -> 4
          [] e = ".gif" -> 5 [] e = ".jpeg" -> 6 [] e = ".jpg" -> 7 [] e = ".png" -> 8
          [] e = ".txt" -> 9 [] OTHER -> 10]

FileNames == (DOMAIN StemRank) \X (DOMAIN ExtRank)

name_less(f, g) ==
    \/ StemRank[f[1]] < StemRank[g[1]]
    \/ StemRank[f[1]] = StemRank[g[1]] /\ ExtRank[f[2]] < ExtRank[g[2]]

(***************************************************************************)
(* Fingerprint: _compute_image_hash                                        *)
(***************************************************************************)

\* (x * 255).astype(np.uint8) of one pixel value given in thousandths.
ToUint8(x) == (x * 255) \div 1000

\* img_np.tobytes()
tobytes(img_tensor) == [i \in 1..Len(img_tensor) |-> ToUint8(img_tensor[i])]

\* img_path.encode('utf-8') and str(os.path.getmtime(img_path)).encode('utf-8')
\* as one number each, apart from each other and from the byte values 0..255.
path_code(filename) == 1000 + 20 * StemRank[filename[1]] + ExtRank[filename[2]]

mtime_code(t) == 2000 + t

\* The bytes the hasher is fed before params_str (l.91-102).  In folder mode
\* mtime maps an existing path to its modification time and any other to Missing.
hashed_images(images, use_folder_path, mtime) ==
    IF use_folder_path
    THEN Concat([i \in 1..Len(images) |->
            <<path_code(images[i])>> \o
            (IF mtime[images[i]] # Missing THEN <<mtime_code(mtime[images[i]])>> ELSE <<>>)])
    ELSE Concat([i \in 1..Len(images) |-> tobytes(images[i])])

\* _compute_image_hash with blocks_to_swap left out of params_str.
compute_image_hash_no_blocks(images, captions, training_steps, learning_rate, lora_rank, vram_mode, output_name, model_variant, dit_model, vae_model, text_encoder, blocks_to_swap, use_folder_path, mtime) ==
    [data   |-> hashed_images(images, use_folder_path, mtime),
     params |-> <<"musubi_flux_klein", model_variant, join(captions),
                  training_steps, learning_rate, lora_rank, vram_mode,
                  output_name, Len(images), dit_model, vae_model,
                  text_encoder>>]

\* _compute_image_hash.  The result stands for hexdigest()[:16] of the bytes
\* fed to the hasher: SHA-256 is taken to be collision free, so two digests
\* are equal exactly when the hashed byte streams are.  data is the stream of
\* image bytes, params the fields of params_str in their order.
compute_image_hash(images, captions, training_steps, learning_rate, lora_rank, vram_mode, output_name, model_variant, dit_model, vae_model, text_encoder, blocks_to_swap, use_folder_path, mtime) ==
    [data   |-> hashed_images(images, use_folder_path, mtime),
     params |-> <<"musubi_flux_klein", model_variant, join(captions),
                  training_steps, learning_rate, lora_rank, vram_mode,
                  output_name, Len(images), dit_model, vae_model,
                  text_encoder, blocks_to_swap>>]

(***************************************************************************)
(* Samples: the source folder (l.363-388) and the image inputs (l.390-408) *)
(***************************************************************************)

\* sorted(os.listdir(images_path))
RECURSIVE sorted(_)
sorted(names) ==
    IF names = {} THEN <<>>
    ELSE LET f == CHOOSE x \in names : \A y \in names : x = y \/ name_less(x, y)
         IN  <<f>> \o sorted(names \ {f})

\* str.lower() of an extension
lower(ext) ==
    CASE ext = ".BMP" -> ".bmp" [] ext = ".JPG" -> ".jpg" [] ext = ".PNG" -> ".png"
      [] OTHER -> ext

image_extensions == {".png", ".jpg", ".jpeg", ".webp", ".bmp"}

\* filename.lower().endswith(image_extensions)
is_image(filename) == lower(filename[2]) \in image_extensions

\* l.374-380: the caption of one image of the folder.  dir maps each file
\* name of the folder to the file's text.
folder_caption(dir, filename, caption) ==
    LET caption_file == <<filename[1], ".txt">>
    IN  IF caption_file \in DOMAIN dir THEN strip(dir[caption_file]) ELSE caption

\* l.366-380: folder_images and folder_captions of an existing directory.
folder_scan(dir, caption) ==
    LET names == SelectSeq(sorted(DOMAIN dir), is_image)
    IN  [images   |-> names,
         captions |-> [i \in 1..Len(names) |-> folder_caption(dir, names[i], caption)]]

\* l.395-405: the connected inputs 1..inputcount.  slots[i] is the pair
\* (image_i, caption_i) of the call, NoImage and "" when not connected; image_1
\* is a parameter of its own and is read whatever inputcount is.
RECURSIVE collect_from(_, _, _, _)
collect_from(slots, i, inputcount, caption) ==
    IF i > Len(slots) \/ (i > inputcount /\ i > 1) THEN <<>>
    ELSE (IF slots[i].image # NoImage
          THEN << [image   |-> slots[i].image,
                   caption |-> IF slots[i].caption # <<>> THEN slots[i].caption
                               ELSE caption] >>
          ELSE <<>>)
         \o collect_from(slots, i + 1, inputcount, caption)

\* l.395-405 with the k-th caption read from input k, connected or not.
collect_inputs_by_position(slots, inputcount, caption) ==
    LET got == collect_from(slots, 1, inputcount, caption)
    IN  [images   |-> [i \in 1..Len(got) |-> got[i].image],
         captions |-> [i \in 1..Len(got) |->
                          IF slots[i].caption # <<>> THEN slots[i].caption ELSE caption]]

collect_inputs(slots, inputcount, caption) ==
    LET got == collect_from(slots, 1, inputcount, caption)
    IN  [images   |-> [i \in 1..Len(got) |-> got[i].image],
         captions |-> [i \in 1..Len(got) |-> got[i].caption]]

\* l.363: images_path and images_path.strip()
path_given(images_path) == images_path # "" /\ images_path # " "

\* l.358-410 with "falling back to inputs" left out: a given images_path is
\* the only source of samples.
resolve_samples_no_fallback(r, folder) ==
    LET scan == IF path_given(r.images_path) /\ folder.isdir
                THEN folder_scan(folder.files, r.caption)
                ELSE [images |-> <<>>, captions |-> <<>>]
        inputs == collect_inputs(r.slots, r.inputcount, r.caption)
    IN  IF path_given(r.images_path)
        THEN [use_folder_path |-> scan.images # <<>>, images |-> scan.images, captions |-> scan.captions]
        ELSE [use_folder_path |-> FALSE, images |-> inputs.images, captions |-> inputs.captions]

\* l.390 before l.363: the connected inputs are used when there are any, the
\* folder when there are none.
resolve_samples_inputs_first(r, folder) ==
    LET scan == IF path_given(r.images_path) /\ folder.isdir
                THEN folder_scan(folder.files, r.caption)
                ELSE [images |-> <<>>, captions |-> <<>>]
        inputs == collect_inputs(r.slots, r.inputcount, r.caption)
    IN  IF inputs.images # <<>>
        THEN [use_folder_path |-> FALSE, images |-> inputs.images, captions |-> inputs.captions]
        ELSE [use_folder_path |-> scan.images # <<>>, images |-> scan.images, captions |-> scan.captions]

\* l.358-410: the samples of the run.  folder is what is found at images_path:
\* whether it is a directory, and the directory's files.
resolve_samples(r, folder) ==
    LET scan == IF path_given(r.images_path) /\ folder.isdir
                THEN folder_scan(folder.files, r.caption)
                ELSE [images |-> <<>>, captions |-> <<>>]
        use_folder_path == scan.images # <<>>
        inputs == collect_inputs(r.slots, r.inputcount, r.caption)
    IN  IF use_folder_path
        THEN [use_folder_path |-> TRUE, images |-> scan.images, captions |-> scan.captions]
        ELSE [use_folder_path |-> FALSE, images |-> inputs.images, captions |-> inputs.captions]

(***************************************************************************)
(* Validation (l.407-434)                                                  *)
(***************************************************************************)

\* The checks of l.407-434 with that of the VAE file left out.
validate_no_vae(r, e, samples) ==
    CASE samples.images = <<>>                                  -> "no_images"
      [] ~e.accelerate                                          -> "accelerate"
      [] ~e.train_script                                        -> "train_script"
      [] ~model_exists(get_model_path(r.dit_model, "diffusion_models")) -> "dit"
      [] ~model_exists(text_encoder_path_of(r.text_encoder))    -> "text_encoder"
      [] OTHER                                                  -> "ok"

\* The checks of l.407-434 with those of l.426-429 left to the stages.
validate_models_only(r, e, samples) ==
    CASE samples.images = <<>>                                  -> "no_images"
      [] ~model_exists(get_model_path(r.dit_model, "diffusion_models")) -> "dit"
      [] ~model_exists(get_model_path(r.vae_model, "vae"))      -> "vae"
      [] ~model_exists(text_encoder_path_of(r.text_encoder))    -> "text_encoder"
      [] OTHER                                                  -> "ok"

\* The first check that fails, in the order of the code, or "ok".
validate(r, e, samples) ==
    CASE samples.images = <<>>                                  -> "no_images"
      [] ~e.accelerate                                          -> "accelerate"
      [] ~e.train_script                                        -> "train_script"
      [] ~model_exists(get_model_path(r.dit_model, "diffusion_models")) -> "dit"
      [] ~model_exists(get_model_path(r.vae_model, "vae"))      -> "vae"
      [] ~model_exists(text_encoder_path_of(r.text_encoder))    -> "text_encoder"
      [] OTHER                                                  -> "ok"

\* Errors raised before the settings are saved and the cache is looked at.
ValidationErrors == {"no_images", "accelerate", "train_script", "dit", "vae", "text_encoder"}

(***************************************************************************)
(* Run name and output path (l.472-489)                                    *)
(***************************************************************************)

\* No image_hash, no file, no run name.
NoHash == [data |-> << >>, params |-> << >>]

NoBase == [name |-> "", suffix |-> "", timestamp |-> Missing, hash |-> NoHash]

NoFile == [base |-> NoBase, ctr |-> 0, alt |-> 0]

NoRun == [base |-> NoBase, ctr |-> 0]

\* l.474
variant_suffix(model_variant) == IF model_variant = "Klein Base 4B" THEN "4b" ELSE "9b"

\* l.475: <output_name>_<suffix>_<timestamp>, or flux_klein_<suffix>_lora_<hash>
\* for an empty output_name.  ctr is the _<counter> of l.487, 0 for none.
base_name(r, image_hash, timestamp) ==
    IF r.output_name # ""
    THEN [name |-> r.output_name, suffix |-> variant_suffix(r.model_variant),
          timestamp |-> timestamp, hash |-> NoHash]
    ELSE [name |-> "flux_klein", suffix |-> variant_suffix(r.model_variant),
          timestamp |-> Missing, hash |-> image_hash]

\* <run_name>.safetensors in the output folder
safetensors(run_name) == [base |-> run_name.base, ctr |-> run_name.ctr, alt |-> 0]

\* l.484-486: the first counter whose file does not exist.
RECURSIVE free_counter(_, _, _)
free_counter(files, base, counter) ==
    IF safetensors([base |-> base, ctr |-> counter]) \in files
    THEN free_counter(files, base, counter + 1)
    ELSE counter

\* l.483-488
pick_run_name(files, base) ==
    IF safetensors([base |-> base, ctr |-> 0]) \in files
    THEN [base |-> base, ctr |-> free_counter(files, base, 1)]
    ELSE [base |-> base, ctr |-> 0]

\* f.startswith(run_name) and f.endswith('.safetensors'), for the names of the
\* output folder: the counter follows the base, the tool's own suffix follows both.
starts_with(f, run_name) ==
    f.base = run_name.base /\ (run_name.ctr = 0 \/ f.ctr = run_name.ctr)

(***************************************************************************)
(* Presets and the three commands (l.418, l.561-567, l.598-609, l.636-683) *)
(***************************************************************************)

\* MUSUBI_FLUX_KLEIN_VRAM_PRESETS.get(vram_mode, ...["Low (768px)"]): the
\* default swap budget and the text-encoder precision flag of a preset.
preset_of(vram_mode) ==
    CASE vram_mode = "Max (1256px)"     -> [blocks_to_swap |-> 0,  fp8_text_encoder |-> FALSE]
      [] vram_mode = "Medium (1024px) fp8 offload" -> [blocks_to_swap |-> 14, fp8_text_encoder |-> TRUE]
      [] vram_mode = "Min (512px)"      -> [blocks_to_swap |-> 28, fp8_text_encoder |-> TRUE]
      [] OTHER                          -> [blocks_to_swap |-> 14, fp8_text_encoder |-> TRUE]

\* A command is the Popen object made from it as well: returncode is Missing
\* until wait() has returned.
\* l.561-567
cache_latents_cmd(python_path, config_path, vae_path, model_version) ==
    [stage |-> "cache_latents", exe |-> python_path, script |-> "flux_2_cache_latents.py",
     dataset_config |-> config_path, dit |-> NonePath, vae |-> vae_path, text_encoder |-> NonePath,
     model_version |-> model_version, blocks_to_swap |-> << >>, output_name |-> NoRun,
     returncode |-> Missing]

\* l.598-609
cache_te_cmd(python_path, config_path, text_encoder_path, model_version) ==
    [stage |-> "cache_te", exe |-> python_path, script |-> "flux_2_cache_text_encoder_outputs.py",
     dataset_config |-> config_path, dit |-> NonePath, vae |-> NonePath, text_encoder |-> text_encoder_path,
     model_version |-> model_version, blocks_to_swap |-> << >>, output_name |-> NoRun,
     returncode |-> Missing]

\* l.678-681 without the second cap.
effective_blocks_uncapped(blocks_to_swap, preset, max_blocks) ==
    IF blocks_to_swap > 0 THEN blocks_to_swap ELSE preset.blocks_to_swap

\* l.678 without its else: the default of the preset is not used.
effective_blocks_no_preset(blocks_to_swap, preset, max_blocks) ==
    IF blocks_to_swap > max_blocks THEN max_blocks ELSE blocks_to_swap

\* l.678-681
effective_blocks(blocks_to_swap, preset, max_blocks) ==
    LET eff == IF blocks_to_swap > 0 THEN blocks_to_swap ELSE preset.blocks_to_swap
    IN  IF eff > max_blocks THEN max_blocks ELSE eff

\* l.636-683 with the text encoder looked up again, in text_encoders alone.
train_cmd_own_lookup(r, loc, blocks_to_swap) ==
    LET vc  == variant_config(r.model_variant)
        eff == effective_blocks(blocks_to_swap, preset_of(r.vram_mode), vc.max_blocks_to_swap)
    IN  [stage |-> "train", exe |-> "accelerate", script |-> "flux_2_train_network.py",
         dataset_config |-> loc.config_path,
         dit |-> get_model_path(r.dit_model, "diffusion_models"),
         vae |-> get_model_path(r.vae_model, "vae"),
         text_encoder |-> get_model_path(r.text_encoder, "text_encoders"),
         model_version |-> vc.model_version,
         blocks_to_swap |-> IF eff > 0 THEN <<eff>> ELSE << >>,
         output_name |-> loc.run_name,
         returncode |-> Missing]

\* l.636-683: blocks_to_swap is <<n>> for --blocks_to_swap=n and << >> when the
\* flag is not appended.
train_cmd(r, loc, blocks_to_swap) ==
    LET vc  == variant_config(r.model_variant)
        eff == effective_blocks(blocks_to_swap, preset_of(r.vram_mode), vc.max_blocks_to_swap)
    IN  [stage |-> "train", exe |-> "accelerate", script |-> "flux_2_train_network.py",
         dataset_config |-> loc.config_path,
         dit |-> get_model_path(r.dit_model, "diffusion_models"),
         vae |-> get_model_path(r.vae_model, "vae"),
         text_encoder |-> text_encoder_path_of(r.text_encoder),
         model_version |-> vc.model_version,
         blocks_to_swap |-> IF eff > 0 THEN <<eff>> ELSE << >>,
         output_name |-> loc.run_name,
         returncode |-> Missing]

(***************************************************************************)
(* Staging (l.497-519)                                                     *)
(***************************************************************************)

\* The files written to the temp directory: image_<idx+1:03d><ext> and
\* image_<idx+1:03d>.txt holding the caption.
stage_samples(samples) ==
    [i \in 1..Len(samples.images) |->
        [index   |-> i,
         ext     |-> IF samples.use_folder_path THEN samples.images[i][2] ELSE ".png",
         source  |-> samples.images[i],
         caption |-> samples.captions[i]]]

(***************************************************************************)
(* State                                                                   *)
(***************************************************************************)

VARIABLES
    pc,         \* where train_flux_klein_lora stands: "idle" between calls
    req,        \* the arguments of the current (or last) call
    env,        \* what that call found on the file system
    loc,        \* the locals the call keeps across its child processes
    config,     \* _musubi_flux_klein_config
    configFile, \* .musubi_flux_klein_config.json
    cache,      \* _musubi_flux_klein_lora_cache: image_hash -> lora path
    cacheFile,  \* .musubi_flux_klein_lora_cache.json
    outFiles,   \* the .safetensors files of <musubi_path>/output
    temp,       \* the temp directory of the current (or last) call
    spawned,    \* the commands Popen was called with in this call, in order
    result,     \* how the last call ended
    clock,      \* datetime.now(), in seconds
    runs,       \* calls made so far
    hist,       \* history: image_hash -> last: the last successful run with it;
                \* kept: the file of the last one with keep_lora, NoFile once deleted
    seen,       \* history: the inputs and the image_hash of one call, kept
                \* to be compared with those of the calls after it
    probe,      \* the inputs and outputs of a function applied on its own
    peers       \* the processes that have imported the module next to one
                \* another: each one's _musubi_flux_klein_lora_cache, and
                \* history: what each loaded and recorded, and the writes of
                \* the cache file, in order

vars == <<pc, req, env, config, configFile, loc, cache, cacheFile, outFiles, temp, spawned, result, clock, runs, hist, seen, probe, peers>>

MaxRuns == 2
MaxClock == 1

ExitCodes == {0, 1, 2}

\* The arguments, samples and locals before any call.
NoRequest ==
    [musubi_path |-> << >>, model_variant |-> "", inputcount |-> 0, images_path |-> "",
     dit_model |-> "", vae_model |-> "", text_encoder |-> "", caption |-> << >>,
     training_steps |-> 0, learning_rate |-> 0, lora_rank |-> 0,
     blocks_to_swap |-> 0, vram_mode |-> "", keep_lora |-> FALSE,
     output_name |-> "", custom_python_exe |-> "", slots |-> << >>]

NoSamples == [use_folder_path |-> FALSE, images |-> << >>, captions |-> << >>]

NoKey == [r |-> NoRequest, samples |-> NoSamples, mtimes |-> << >>]

NoRunOf == [path |-> NoFile, r |-> NoRequest]

NoLoc == [image_hash |-> NoHash, run_name |-> NoRun, blocks_to_swap |-> 0,
          python_path |-> "", config_path |-> <<"temp", 0, "dataset_config.toml">>,
          key |-> NoKey, expect |-> NoFile, had |-> NoRunOf]

\* What is found at images_path: no directory, or a directory and the text of
\* each of its files.
NotADirectory == [isdir |-> FALSE, files |-> << >>]

Directory(files) == [isdir |-> TRUE, files |-> files]

\* The findings before any call.
NoEnv ==
    [accelerate |-> FALSE, train_script |-> FALSE, latents_script |-> FALSE,
     venv_python |-> FALSE, custom_python |-> FALSE, staging_ok |-> FALSE,
     save_ok |-> FALSE, rm_ok |-> FALSE, folder |-> NotADirectory, mtime |-> << >>]

\* l.438-453: the settings kept for the next session, blocks_to_swap as capped.
trainer_settings(r, blocks_to_swap) ==
    [model_variant |-> r.model_variant, dit_model |-> r.dit_model, vae_model |-> r.vae_model,
     text_encoder |-> r.text_encoder, caption |-> r.caption,
     training_steps |-> r.training_steps, learning_rate |-> r.learning_rate,
     lora_rank |-> r.lora_rank, blocks_to_swap |-> blocks_to_swap,
     vram_mode |-> r.vram_mode, keep_lora |-> r.keep_lora,
     output_name |-> r.output_name, custom_python_exe |-> r.custom_python_exe]

\* _musubi_flux_klein_config = {}
NoConfig == [set |-> FALSE, musubi_path |-> << >>, trainer_settings |-> trainer_settings(NoRequest, 0)]

\* l.348: os.path.expanduser(musubi_path.strip()); "~" is the one character
\* that stands for the home directory, "h".
expanduser(path) == IF path # << >> /\ Head(path) = "~" THEN <<"h">> \o Tail(path) ELSE path

\* _save_musubi_config left out: the settings stay in memory.
save_musubi_config_off(mem, file, ok) == file

\* _save_musubi_config: as _save_musubi_cache, a write that raises is swallowed.
save_musubi_config(mem, file, ok) == IF ok THEN mem ELSE file

NoSeen == [set |-> FALSE, run |-> 0, clock |-> 0, key |-> NoKey, image_hash |-> NoHash]

NoTemp == [made |-> 0, exists |-> FALSE, removals |-> 0, warned |-> FALSE, files |-> <<>>]

NoResult == [kind |-> "none", what |-> "", code |-> 0, path |-> NoFile]

Raised(what, code) == [kind |-> "error", what |-> what, code |-> code, path |-> NoFile]

Returned(kind, path) == [kind |-> kind, what |-> "", code |-> 0, path |-> path]

NoProbe == [kind |-> "none"]

\* The processes that share the two stores.
Procs == {1, 2}

NoPeers ==
    [proc |-> [p \in Procs |-> [up |-> FALSE, cache |-> << >>, loaded |-> << >>, recorded |-> {}]],
     writers |-> << >>]

drop(m, k) == [x \in DOMAIN m \ {k} |-> m[x]]

put(m, k, v) == (k :> v) @@ m

\* _save_musubi_cache reading the store again and adding its entries to the
\* in-memory mapping before it writes.
save_musubi_cache_merged(mem, file, ok) == IF ok THEN mem @@ file ELSE file

\* _save_musubi_cache left out: the mapping changes in memory alone.
save_musubi_cache_off(mem, file, ok) == file

\* _save_musubi_cache: the store becomes the in-memory mapping; a write that
\* raises is swallowed (except: pass) and leaves the store as it was.
save_musubi_cache(mem, file, ok) == IF ok THEN mem ELSE file

\* _musubi_flux_klein_lora_cache[image_hash] = lora_output_path left out.
cache_record_skip(mem, image_hash, lora_output_path) == mem

\* l.729
cache_record(mem, image_hash, lora_output_path) == put(mem, image_hash, lora_output_path)

\* The finally block without the rmtree.
cleanup_skip(t, ok) == t

\* l.737-742: shutil.rmtree(temp_dir); a failure is printed, not raised.
cleanup(t, ok) ==
    [t EXCEPT !.removals = @ + 1, !.exists = IF ok THEN FALSE ELSE @, !.warned = ~ok]

\* l.492: tempfile.mkdtemp
mkdtemp(files) == [made |-> 1, exists |-> TRUE, removals |-> 0, warned |-> FALSE, files |-> files]

\* l.545-550
python_path_of(r) ==
    IF r.custom_python_exe # "" /\ r.custom_python_exe # " "
    THEN r.custom_python_exe ELSE "venv_python"

\* What stops the call between mkdtemp and the first Popen (l.497-579), or "ok".
prepare(r, e) ==
    CASE ~e.staging_ok                                        -> "staging"
      [] python_path_of(r) # "venv_python" /\ ~e.custom_python -> "custom_python"
      [] ~e.latents_script                                    -> "latents_script"
      [] python_path_of(r) = "venv_python" /\ ~e.venv_python  -> "popen"
      [] OTHER                                                -> "ok"

Init ==
    /\ pc = "idle"
    /\ req = NoRequest
    /\ env = NoEnv
    /\ config = NoConfig
    /\ configFile = NoConfig
    /\ loc = NoLoc
    /\ cache = << >>
    /\ cacheFile = << >>
    /\ outFiles = {}
    /\ temp = NoTemp
    /\ spawned = << >>
    /\ result = NoResult
    /\ clock = 0
    /\ runs = 0
    /\ hist = << >>
    /\ seen = NoSeen
    /\ probe = NoProbe
    /\ peers = NoPeers

(***************************************************************************)
(* train_flux_klein_lora, from the call to the first child process         *)
(***************************************************************************)

\* The image_hash with the time of the call hashed next to output_name.
image_hash_of_timed(r, samples, mtime) ==
    [data   |-> hashed_images(samples.images, samples.use_folder_path, mtime),
     params |-> <<"musubi_flux_klein", r.model_variant, join(samples.captions),
                  r.training_steps, r.learning_rate, r.lora_rank, r.vram_mode,
                  r.output_name, clock, Len(samples.images), r.dit_model, r.vae_model,
                  r.text_encoder,
                  cap_blocks_to_swap(r.blocks_to_swap, variant_config(r.model_variant).max_blocks_to_swap)>>]

\* image_hash of the call (l.456-460), over the capped blocks_to_swap.
image_hash_of(r, samples, mtime) ==
    compute_image_hash(samples.images, samples.captions, r.training_steps,
        r.learning_rate, r.lora_rank, r.vram_mode, r.output_name, r.model_variant,
        r.dit_model, r.vae_model, r.text_encoder,
        cap_blocks_to_swap(r.blocks_to_swap, variant_config(r.model_variant).max_blocks_to_swap),
        samples.use_folder_path, mtime)

\* l.463: keep_lora and image_hash in _musubi_flux_klein_lora_cache
cache_consulted(r, image_hash, mem) == r.keep_lora /\ image_hash \in DOMAIN mem

\* l.465 taken as true: the cached path is not looked for on disk.
cached_file_exists_unchecked(path, files) == TRUE

\* l.465: os.path.exists(cached_path)
cached_file_exists(path, files) == path \in files

\* What the caller and the file system hold for this call that the image_hash
\* may depend on: the arguments, the samples they resolve to and, in folder
\* mode, the modification times of the image files.
inputs_key(r, samples, mtime) ==
    [r |-> r, samples |-> samples,
     mtimes |-> IF samples.use_folder_path
                THEN [i \in 1..Len(samples.images) |-> mtime[samples.images[i]]]
                ELSE << >>]

\* l.337-579.  r: the arguments; e: what the call finds on the file system and
\* whether the calls whose failure it swallows or passes on succeed; save_ok
\* stands for the two stores, which are files of one directory.
Call(r, e, remember) ==
    /\ pc = "idle"
    /\ LET samples    == resolve_samples(r, e.folder)
           verdict    == validate(r, e, samples)
           vc         == variant_config(r.model_variant)
           blocks     == cap_blocks_to_swap(r.blocks_to_swap, vc.max_blocks_to_swap)
           image_hash == image_hash_of(r, samples, e.mtime)
           consulted  == cache_consulted(r, image_hash, cache)
           hit        == consulted /\ cached_file_exists(cache[image_hash], outFiles)
           cache1     == IF consulted /\ ~hit THEN drop(cache, image_hash) ELSE cache
           cacheFile1 == IF consulted /\ ~hit
                         THEN save_musubi_cache(cache1, cacheFile, e.save_ok)
                         ELSE cacheFile
           run_name   == pick_run_name(outFiles, base_name(r, image_hash, clock))
           config_path == <<"temp", runs + 1, "dataset_config.toml">>
           stop       == prepare(r, e)
           tmp        == mkdtemp(IF e.staging_ok THEN stage_samples(samples) ELSE << >>)
           kept       == IF image_hash \in DOMAIN hist THEN hist[image_hash].kept ELSE NoFile
           last       == IF image_hash \in DOMAIN hist THEN hist[image_hash].last ELSE NoRunOf
           loc1       == [image_hash |-> image_hash, run_name |-> run_name,
                          blocks_to_swap |-> blocks, python_path |-> python_path_of(r),
                          config_path |-> config_path,
                          key |-> inputs_key(r, samples, e.mtime),
                          expect |-> IF kept \in outFiles THEN kept ELSE NoFile,
                          had |-> IF last.path \in outFiles THEN last ELSE NoRunOf]
       IN  /\ req' = r
           /\ env' = e
           /\ runs' = runs + 1
           /\ UNCHANGED <<clock, outFiles, hist, probe, peers>>
           /\ IF verdict # "ok"
              THEN /\ pc' = "idle"
                   /\ result' = Raised(verdict, 0)
                   /\ loc' = NoLoc
                   /\ temp' = NoTemp
                   /\ spawned' = << >>
                   /\ UNCHANGED <<config, configFile, cache, cacheFile, seen>>
              ELSE /\ loc' = loc1
                   /\ config' = [set |-> TRUE, musubi_path |-> expanduser(strip(r.musubi_path)),
                                 trainer_settings |-> trainer_settings(r, blocks)]
                   /\ configFile' = save_musubi_config(config', configFile, e.save_ok)
                   /\ seen' = IF remember
                              THEN [set |-> TRUE, run |-> runs + 1, clock |-> clock,
                                    key |-> loc1.key, image_hash |-> image_hash]
                              ELSE seen
                   /\ IF hit
                      THEN /\ pc' = "idle"
                           /\ result' = Returned("hit", cache[image_hash])
                           /\ temp' = NoTemp
                           /\ spawned' = << >>
                           /\ UNCHANGED <<cache, cacheFile>>
                      ELSE /\ cache' = cache1
                           /\ cacheFile' = cacheFile1
                           /\ IF stop # "ok"
                              THEN /\ pc' = "idle"
                                   /\ result' = Raised(stop, 0)
                                   /\ temp' = cleanup(tmp, e.rm_ok)
                                   /\ spawned' = << >>
                              ELSE /\ pc' = "latents_stream"
                                   /\ result' = NoResult
                                   /\ temp' = tmp
                                   /\ spawned' = << cache_latents_cmd(loc1.python_path, config_path,
                                                        get_model_path(r.vae_model, "vae"), vc.model_version) >>

(***************************************************************************)
(* The three child processes                                               *)
(***************************************************************************)

\* The loop over <process>.stdout never left.
after_stream_never(at) == at

\* l.581-586, l.623-628, l.703-709: from the loop over the child's output to
\* its wait().
after_stream(at) ==
    CASE at = "latents_stream" -> "latents_wait"
      [] at = "te_stream"      -> "te_wait"
      [] OTHER                 -> "train_wait"

\* for line in <process>.stdout: the loop ends when the child closes its
\* output; the call then waits for the child's exit.
StreamEnd ==
    /\ pc \in {"latents_stream", "te_stream", "train_stream"}
    /\ pc' = after_stream(pc)
    /\ UNCHANGED <<req, env, config, configFile, loc, cache, cacheFile, outFiles, temp, spawned, result, clock, runs, hist, seen, probe, peers>>

\* <process>.wait() left out: the next lines run while the child does.
exited_unwaited(procs, returncode) == procs

\* <process>.wait() has returned: the last child's returncode is set.
exited(procs, returncode) == [procs EXCEPT ![Len(procs)].returncode = returncode]

\* l.587 read as "the caching is over": the exit code is not looked at.
exit_failed_ignored(returncode) == FALSE

\* l.587, l.629, l.711 read as returncode < 0: only a child killed by a
\* signal counts as failed.
exit_failed_by_signal(returncode) == returncode < 0

\* l.587, l.629, l.711: returncode != 0
exit_failed(returncode) == returncode # 0

\* l.586-621: cache_latents_process.wait() returns; the text-encoder caching
\* is started.
LatentsExit(returncode, te_script, rm_ok) ==
    /\ pc = "latents_wait"
    /\ UNCHANGED <<req, env, config, configFile, loc, cache, cacheFile, outFiles, clock, runs, hist, seen, probe, peers>>
    /\ IF exit_failed(returncode) \/ ~te_script
       THEN /\ pc' = "idle"
            /\ result' = IF exit_failed(returncode) THEN Raised("stage_latents", returncode)
                         ELSE Raised("te_script", 0)
            /\ temp' = cleanup(temp, rm_ok)
            /\ spawned' = exited(spawned, returncode)
       ELSE /\ pc' = "te_stream"
            /\ spawned' = Append(exited(spawned, returncode),
                              cache_te_cmd(loc.python_path, loc.config_path,
                                  text_encoder_path_of(req.text_encoder),
                                  variant_config(req.model_variant).model_version))
            /\ UNCHANGED <<result, temp>>

\* l.628-701: cache_te_process.wait() returns; the training is started.
TeExit(returncode, rm_ok) ==
    /\ pc = "te_wait"
    /\ UNCHANGED <<req, env, config, configFile, loc, cache, cacheFile, outFiles, clock, runs, hist, seen, probe, peers>>
    /\ IF exit_failed(returncode)
       THEN /\ pc' = "idle"
            /\ result' = Raised("stage_te", returncode)
            /\ temp' = cleanup(temp, rm_ok)
            /\ spawned' = exited(spawned, returncode)
       ELSE /\ pc' = "train_stream"
            /\ spawned' = Append(exited(spawned, returncode), train_cmd(req, loc, loc.blocks_to_swap))
            /\ UNCHANGED <<result, temp>>

\* What the training tool left in the output folder for this run.
written(run_name, wrote) ==
    CASE wrote = "exact" -> {safetensors(run_name)}
      [] wrote = "alt"   -> {[base |-> run_name.base, ctr |-> run_name.ctr, alt |-> 1]}
      [] wrote = "steps" -> {[base |-> run_name.base, ctr |-> run_name.ctr, alt |-> n] : n \in {1, 2}}
      [] OTHER           -> {}

\* l.720-723 alone: the exact file of l.716-717 is not looked for first.
found_lora_any(files, run_name) ==
    LET possible_files == {f \in files : starts_with(f, run_name)}
    IN  IF possible_files # {} THEN possible_files ELSE {NoFile}

\* l.716 alone: lora_output_path is returned without being looked for.
found_lora_unchecked(files, run_name) == {safetensors(run_name)}

\* l.717-723: the files possible_files[-1] may be, os.listdir giving the names
\* in an order of its own; {NoFile} when nothing is found.
found_lora(files, run_name) ==
    IF safetensors(run_name) \in files THEN {safetensors(run_name)}
    ELSE LET possible_files == {f \in files : starts_with(f, run_name)}
         IN  IF possible_files # {} THEN possible_files ELSE {NoFile}

\* l.463 and l.728 without keep_lora: the cache is used in every run.
record_wanted_always(r) == TRUE

\* l.728: if keep_lora
record_wanted(r) == r.keep_lora

\* l.709-742: process.wait() returns.
TrainExit(returncode, wrote, save_ok, rm_ok) ==
    /\ pc = "train_wait"
    /\ pc' = "idle"
    /\ temp' = cleanup(temp, rm_ok)
    /\ outFiles' = outFiles \cup written(loc.run_name, wrote)
    /\ spawned' = exited(spawned, returncode)
    /\ UNCHANGED <<req, config, configFile, loc, clock, runs, seen, probe, peers>>
    /\ IF exit_failed(returncode)
       THEN /\ result' = Raised("stage_train", returncode)
            /\ UNCHANGED <<env, cache, cacheFile, hist>>
       ELSE \E lora_output_path \in found_lora(outFiles', loc.run_name) :
              IF lora_output_path = NoFile
              THEN /\ result' = Raised("no_lora", 0)
                   /\ UNCHANGED <<env, cache, cacheFile, hist>>
              ELSE /\ result' = Returned("built", lora_output_path)
                   /\ env' = IF record_wanted(req) THEN [env EXCEPT !.save_ok = save_ok] ELSE env
                   /\ cache' = IF record_wanted(req)
                               THEN cache_record(cache, loc.image_hash, lora_output_path)
                               ELSE cache
                   /\ cacheFile' = IF record_wanted(req)
                                   THEN save_musubi_cache(cache', cacheFile, save_ok)
                                   ELSE cacheFile
                   /\ hist' = put(hist, loc.image_hash,
                                [kept |-> IF req.keep_lora THEN lora_output_path
                                          ELSE IF loc.image_hash \in DOMAIN hist
                                               THEN hist[loc.image_hash].kept ELSE NoFile,
                                 last |-> [path |-> lora_output_path, r |-> req]])

(***************************************************************************)
(* The world around the call                                               *)
(***************************************************************************)

\* A second passes before a call.
Tick ==
    /\ pc = "idle"
    /\ runs < MaxRuns
    /\ clock < MaxClock
    /\ clock' = clock + 1
    /\ UNCHANGED <<pc, req, env, config, configFile, loc, cache, cacheFile, outFiles, temp, spawned, result, runs, hist, seen, probe, peers>>

\* A file of the output folder is deleted before a call.
DeleteFile(f) ==
    /\ pc = "idle"
    /\ runs < MaxRuns
    /\ f \in outFiles
    /\ outFiles' = outFiles \ {f}
    /\ hist' = [h \in DOMAIN hist |->
                    [hist[h] EXCEPT !.kept = IF @ = f THEN NoFile ELSE @]]
    /\ UNCHANGED <<pc, req, env, config, configFile, loc, cache, cacheFile, temp, spawned, result, clock, runs, seen, probe, peers>>

(***************************************************************************)
(* Calls and file-system findings of the specification Spec                *)
(***************************************************************************)

Connected(image) == [image |-> image, caption |-> << >>]

Unconnected == [image |-> NoImage, caption |-> << >>]

BaseRequest ==
    [musubi_path |-> <<"m">>, model_variant |-> "Klein Base 4B", inputcount |-> 2, images_path |-> "",
     dit_model |-> "klein.safetensors", vae_model |-> "ae.safetensors",
     text_encoder |-> "qwen3.safetensors", caption |-> <<"p">>,
     training_steps |-> 400, learning_rate |-> 10, lora_rank |-> 32,
     blocks_to_swap |-> 0, vram_mode |-> "Max (1256px)", keep_lora |-> TRUE,
     output_name |-> "MyLora", custom_python_exe |-> "",
     slots |-> << Connected(<<0>>), Unconnected >>]

\* A folder of two images, the first with a caption file.
DataFolder ==
    Directory((<<"a", ".png">> :> << >>) @@ (<<"a", ".txt">> :> <<" ", "x">>)
              @@ (<<"b", ".PNG">> :> << >>))

\* Modification times of the files of the folder.
Mtimes(t) == [f \in FileNames |-> t]

OkEnv ==
    [accelerate |-> TRUE, train_script |-> TRUE, latents_script |-> TRUE,
     venv_python |-> TRUE, custom_python |-> TRUE,
     staging_ok |-> TRUE, save_ok |-> TRUE, rm_ok |-> TRUE,
     folder |-> NotADirectory, mtime |-> Mtimes(1)]

\* OkEnv with one of its findings changed.
Envs ==
    {OkEnv}
    \cup {[OkEnv EXCEPT ![k] = FALSE] :
            k \in {"accelerate", "train_script", "latents_script",
                   "venv_python", "staging_ok", "save_ok", "rm_ok"}}

\* A folder without an image file.
OtherFolder == Directory((<<"a", ".gif">> :> << >>) @@ (<<"a", ".txt">> :> <<"x">>))

FolderRequest == [BaseRequest EXCEPT !.images_path = "/imgs"]

NoInputs == << Unconnected, Unconnected >>

Requests ==
    {[BaseRequest EXCEPT !.keep_lora = k, !.output_name = n] :
        k \in BOOLEAN, n \in {"MyLora", ""}}
    \cup {[BaseRequest EXCEPT !.training_steps = 500],
          [BaseRequest EXCEPT !.model_variant = "Klein Base 9B"],
          [BaseRequest EXCEPT !.blocks_to_swap = 14],
          [BaseRequest EXCEPT !.slots = NoInputs],
          [BaseRequest EXCEPT !.dit_model = ""],
          [BaseRequest EXCEPT !.vae_model = "gone.safetensors"],
          [BaseRequest EXCEPT !.text_encoder = "gone.safetensors"],
          [BaseRequest EXCEPT !.text_encoder = "qwen3_clip.safetensors"],
          [BaseRequest EXCEPT !.custom_python_exe = "/opt/python"],
          [BaseRequest EXCEPT !.musubi_path = <<" ", "m">>],
          FolderRequest}

\* The calls made: each request on a sound installation, the base request on
\* each faulty one, and the folder request over each kind of folder.
Calls ==
    {[r |-> r, e |-> OkEnv] : r \in Requests}
    \cup {[r |-> BaseRequest, e |-> e] : e \in Envs}
    \cup {[r |-> [BaseRequest EXCEPT !.custom_python_exe = "/opt/python"],
           e |-> [OkEnv EXCEPT !.custom_python = FALSE]]}
    \cup {[r |-> [FolderRequest EXCEPT !.slots = s], e |-> [OkEnv EXCEPT !.folder = d, !.mtime = Mtimes(t)]] :
            s \in {BaseRequest.slots, NoInputs}, d \in {DataFolder, OtherFolder}, t \in {1, 2}}

Next ==
    \/ runs < MaxRuns /\ \E c \in Calls : Call(c.r, c.e, FALSE)
    \/ StreamEnd
    \/ \E returncode \in ExitCodes, te_script, rm_ok \in BOOLEAN :
            LatentsExit(returncode, te_script, rm_ok)
    \/ \E returncode \in ExitCodes, rm_ok \in BOOLEAN : TeExit(returncode, rm_ok)
    \/ \E returncode \in ExitCodes, wrote \in {"exact", "alt", "none"}, save_ok, rm_ok \in BOOLEAN :
            TrainExit(returncode, wrote, save_ok, rm_ok)
    \/ Tick
    \/ \E f \in outFiles : DeleteFile(f)

Spec == Init /\ [][Next]_vars

(***************************************************************************)
(* Properties of the pipeline, under Spec                                  *)
(***************************************************************************)

\* The error a failed child process of a stage is reported as.
StageError(stage) ==
    CASE stage = "cache_latents" -> "stage_latents"
      [] stage = "cache_te"      -> "stage_te"
      [] OTHER                   -> "stage_train"

\* C1 (fail-fast): a child process that has exited with a non-zero code is
\* the last one spawned in its run, and the run has ended in the error that
\* names its stage and carries its exit code.
FailFast ==
    \A i \in DOMAIN spawned :
        spawned[i].returncode \notin {Missing, 0} =>
            /\ i = Len(spawned)
            /\ pc = "idle"
            /\ result = Raised(StageError(spawned[i].stage), spawned[i].returncode)

\* The text-encoder caching has exited with code 2 and the run has ended.
FailFastWitness ==
    /\ pc = "idle"
    /\ Len(spawned) = 2
    /\ spawned[2].stage = "cache_te"
    /\ spawned[2].returncode = 2
    /\ result = Raised("stage_te", 2)

\* C2 as stated (workspace teardown): a temp directory is made only by a run
\* that missed the cache, and once the run has returned its removal has been
\* attempted exactly once and the directory no longer exists.
TeardownRemoves ==
    /\ result.kind = "hit" => temp.made = 0
    /\ result.what \in ValidationErrors => temp.made = 0
    /\ pc # "idle" => temp.made = 1 /\ temp.removals = 0 /\ temp.exists
    /\ (pc = "idle" /\ temp.made = 1) => temp.removals = 1 /\ ~temp.exists

\* C2 (workspace teardown, amended): a temp directory is made only by a run
\* that missed the cache; it is left alone while the run lasts, and once the
\* run has returned its removal has been attempted exactly once; the
\* directory is gone unless that removal failed, which is printed as a
\* warning and not raised.
TeardownAttempted ==
    /\ result.kind = "hit" => temp.made = 0
    /\ result.what \in ValidationErrors => temp.made = 0
    /\ pc # "idle" => temp.made = 1 /\ temp.removals = 0 /\ temp.exists
    /\ (pc = "idle" /\ temp.made = 1) =>
            /\ temp.removals = 1
            /\ temp.exists <=> temp.warned

\* A run whose training exited with 0 and left no file has returned, and its
\* temp directory is removed.
TeardownWitness ==
    /\ pc = "idle"
    /\ result = Raised("no_lora", 0)
    /\ temp.made = 1
    /\ temp.removals = 1
    /\ ~temp.exists

\* C3 as stated (at most one build per fingerprint): a run that returns
\* when an earlier run with the same arguments and image_hash had succeeded,
\* and the file that run returned was still there at the call, has returned
\* that file and has spawned nothing.
RepeatReturnsArtifact ==
    (pc = "idle" /\ loc.had # NoRunOf /\ loc.had.r = req) =>
        /\ result = Returned("hit", loc.had.path)
        /\ spawned = << >>

\* C3 (amended): a run with keep_lora that passes the checks of l.407-434,
\* when the file of the last successful keep_lora run with the same
\* image_hash has been there ever since, returns that file at once: no temp
\* directory, no child process.
KeptRepeatReturnsArtifact ==
    (req.keep_lora /\ loc.expect # NoFile) =>
        /\ pc = "idle"
        /\ result = Returned("hit", loc.expect)
        /\ spawned = << >>
        /\ temp.made = 0

\* A second run has found the file of the first and returned it.
KeptRepeatWitness ==
    /\ runs = 2
    /\ req.keep_lora
    /\ loc.expect # NoFile
    /\ result = Returned("hit", loc.expect)

\* A call has just been made whose image_hash is in the cache with a path
\* that is not on disk.
DanglingCall ==
    /\ runs' = runs + 1
    /\ loc'.image_hash \in DOMAIN cache
    /\ cache[loc'.image_hash] \notin outFiles

\* C4 as stated (self-healing lookup): a call whose image_hash is cached with
\* a path that no longer exists removes the entry from the cache and from the
\* cache file and goes on as a miss, making its temp directory; it does not
\* return the path.
DanglingEntryDropped ==
    [][DanglingCall =>
        /\ loc'.image_hash \notin DOMAIN cache'
        /\ loc'.image_hash \notin DOMAIN cacheFile'
        /\ temp'.made = 1
        /\ result'.kind # "hit"]_vars

\* C4 (amended): a call with keep_lora whose image_hash is cached with a path
\* that no longer exists removes the entry from the cache and rewrites the
\* cache file from it, a failed write being swallowed and leaving the file as
\* it was, and goes on as a miss; no call returns a cached path that is not
\* on disk.
KeptDanglingEntryDropped ==
    [][/\ (DanglingCall /\ req'.keep_lora) =>
            /\ loc'.image_hash \notin DOMAIN cache'
            /\ cacheFile' = cache' \/ cacheFile' = cacheFile
            /\ temp'.made = 1
            /\ result'.kind # "hit"
       /\ (runs' = runs + 1 /\ result'.kind = "hit") => result'.path \in outFiles]_vars

\* A run with keep_lora has been started as a miss although the cache file
\* written by an earlier run holds its image_hash: the entry was dangling and
\* is gone from the cache and from the file.
KeptDanglingWitness ==
    /\ runs = 2
    /\ req.keep_lora
    /\ pc = "latents_stream"
    /\ loc.image_hash \in DOMAIN hist
    /\ hist[loc.image_hash].last.r.keep_lora
    /\ hist[loc.image_hash].last.path \notin outFiles
    /\ loc.image_hash \notin DOMAIN cache
    /\ loc.image_hash \notin DOMAIN cacheFile

\* The three stages have been run and have exited with 0, and the file
\* <run_name>.safetensors is in the output folder.
AllStagesDone ==
    /\ pc = "idle"
    /\ Len(spawned) = 3
    /\ \A i \in 1..3 : spawned[i].returncode = 0
    /\ safetensors(loc.run_name) \in outFiles

ThreeStagesInOrder ==
    /\ spawned[1].stage = "cache_latents"
    /\ spawned[2].stage = "cache_te"
    /\ spawned[3].stage = "train"
    /\ spawned[3].output_name = loc.run_name

\* C5 as stated (end-to-end miss path): when the three stages have exited
\* with 0 and the expected file is written, the processes spawned were the
\* latent caching, the text-encoder caching and the training, in this order;
\* the cache maps the image_hash to the returned path, and the returned path
\* is <output folder>/<run_name>.safetensors.
MissPathRecords ==
    AllStagesDone =>
        /\ ThreeStagesInOrder
        /\ result = Returned("built", safetensors(loc.run_name))
        /\ loc.image_hash \in DOMAIN cache
        /\ cache[loc.image_hash] = result.path

\* C5 (amended): as stated, the cache entry being recorded when keep_lora is
\* set; without keep_lora the cache is not given the path.
MissPathRecordsIfKept ==
    AllStagesDone =>
        /\ ThreeStagesInOrder
        /\ result = Returned("built", safetensors(loc.run_name))
        /\ req.keep_lora =>
                /\ loc.image_hash \in DOMAIN cache
                /\ cache[loc.image_hash] = result.path

\* A run with keep_lora has gone through the three stages and recorded its file.
MissPathWitness ==
    /\ AllStagesDone
    /\ req.keep_lora
    /\ cache[loc.image_hash] = safetensors(loc.run_name)
    /\ result.kind = "built"

\* No sample resolves, or one of the three model files is not found.
InputError(r, e) ==
    \/ resolve_samples(r, e.folder).images = << >>
    \/ get_model_path(r.dit_model, "diffusion_models") \notin ModelStore
    \/ get_model_path(r.vae_model, "vae") \notin ModelStore
    \/ /\ get_model_path(r.text_encoder, "text_encoders") \notin ModelStore
       /\ get_model_path(r.text_encoder, "clip") \notin ModelStore

\* C10 (input errors precede side effects): a call for which no sample
\* resolves, or whose DiT, VAE or text-encoder file is not found, ends in an
\* error with no child process spawned, no temp directory made, and the
\* cache and the cache file as they were.
InputErrorsFirst ==
    [][(runs' = runs + 1 /\ InputError(req', env')) =>
            /\ pc' = "idle"
            /\ result'.kind = "error"
            /\ result'.what \in {"no_images", "dit", "vae", "text_encoder"}
            /\ spawned' = << >>
            /\ temp'.made = 0
            /\ cache' = cache
            /\ cacheFile' = cacheFile]_vars

\* A call without a VAE file has failed after an earlier run had filled the cache.
InputErrorsWitness ==
    /\ runs = 2
    /\ result = Raised("vae", 0)
    /\ cache # << >>
    /\ spawned = << >>

(***************************************************************************)
(* The fingerprint on its own: SpecFp computes the image_hash of two        *)
(* requests that differ in one field                                       *)
(***************************************************************************)

\* The image_hash the call computes for the arguments r with inline images.
fingerprint(r) == image_hash_of(r, resolve_samples(r, NotADirectory), << >>)

FpImages == {<<0>>, <<2>>, <<1000>>, <<0, 0>>}

FpCaptions == {<< >>, <<"p">>, <<"x">>}

FpBlocks == {0, 13, 14, 15, 16, 17}

\* Requests with two connected images.
FpRequests ==
    {[BaseRequest EXCEPT !.slots = <<[image |-> i1, caption |-> c1], [image |-> i2, caption |-> c2]>>,
                         !.blocks_to_swap = b, !.model_variant = v] :
        i1 \in FpImages, i2 \in FpImages, c1 \in FpCaptions, c2 \in FpCaptions,
        b \in FpBlocks, v \in {"Klein Base 4B", "Klein Base 9B"}}

FpFields ==
    {"caption_1", "caption_2", "training_steps", "learning_rate", "lora_rank",
     "vram_mode", "model_variant", "output_name", "blocks_to_swap", "order"}

\* The requests that differ from a in the field alone.
Varied(a, field) ==
    CASE field = "caption_1" ->
            {[a EXCEPT !.slots[1].caption = c] : c \in FpCaptions \ {a.slots[1].caption}}
      [] field = "caption_2" ->
            {[a EXCEPT !.slots[2].caption = c] : c \in FpCaptions \ {a.slots[2].caption}}
      [] field = "training_steps" -> {[a EXCEPT !.training_steps = 500]}
      [] field = "learning_rate"  -> {[a EXCEPT !.learning_rate = 5]}
      [] field = "lora_rank"      -> {[a EXCEPT !.lora_rank = 16]}
      [] field = "vram_mode"      -> {[a EXCEPT !.vram_mode = "Min (512px)"]}
      [] field = "model_variant"  ->
            {[a EXCEPT !.model_variant = v] :
                v \in {"Klein Base 4B", "Klein Base 9B"} \ {a.model_variant}}
      [] field = "output_name"    -> {[a EXCEPT !.output_name = "Other"]}
      [] field = "blocks_to_swap" ->
            {[a EXCEPT !.blocks_to_swap = b] : b \in FpBlocks \ {a.blocks_to_swap}}
      [] OTHER ->
            IF a.slots[1] # a.slots[2]
            THEN {[a EXCEPT !.slots = <<a.slots[2], a.slots[1]>>]}
            ELSE {}

\* _compute_image_hash is applied to a and to b.
Fingerprint(a, field, b) ==
    /\ probe' = [kind |-> "pair", field |-> field, a |-> a, b |-> b,
                 ha |-> fingerprint(a), hb |-> fingerprint(b)]
    /\ UNCHANGED <<pc, req, env, config, configFile, loc, cache, cacheFile, outFiles, temp, spawned, result, clock, runs, hist, seen, peers>>

FpNext ==
    /\ probe = NoProbe
    /\ \E a \in FpRequests, field \in FpFields : \E b \in Varied(a, field) : Fingerprint(a, field, b)

SpecFp == Init /\ [][FpNext]_vars

\* C6 as stated (fingerprint sensitivity): two requests that differ in one
\* caption, the step count, the learning rate, the rank, the preset label,
\* the variant, the output name, the requested blocks_to_swap, or the order
\* of two distinct samples, have different image_hash values.
FingerprintSensitive == probe.kind = "pair" => probe.ha # probe.hb

\* The caption a slot resolves to.
ResolvedCaption(r, i) == IF r.slots[i].caption # << >> THEN r.slots[i].caption ELSE r.caption

\* The requested blocks_to_swap, no more than the ceiling of the variant.
Clamped(r) ==
    LET ceiling == IF r.model_variant = "Klein Base 9B" THEN 16 ELSE 13
    IN  IF r.blocks_to_swap > ceiling THEN ceiling ELSE r.blocks_to_swap

\* The pixel bytes of the two images, one after the other.
PixelBytes(r) ==
    [i \in 1..Len(r.slots[1].image) |-> (r.slots[1].image[i] * 255) \div 1000]
    \o [i \in 1..Len(r.slots[2].image) |-> (r.slots[2].image[i] * 255) \div 1000]

\* The captions of the two samples joined by "|".
JoinedCaptions(r) == ResolvedCaption(r, 1) \o <<"|">> \o ResolvedCaption(r, 2)

\* The change of the field is one the hashed bytes can show.
Contributes(field, a, b) ==
    CASE field = "caption_1"      -> ResolvedCaption(a, 1) # ResolvedCaption(b, 1)
      [] field = "caption_2"      -> ResolvedCaption(a, 2) # ResolvedCaption(b, 2)
      [] field = "blocks_to_swap" -> Clamped(a) # Clamped(b)
      [] field = "order"          -> \/ PixelBytes(a) # PixelBytes(b)
                                     \/ JoinedCaptions(a) # JoinedCaptions(b)
      [] OTHER                    -> TRUE

\* C6 (amended): two requests with inline images have different image_hash
\* values when they differ in the caption one sample resolves to (its own,
\* or the default caption when its own is empty), in the step count, the
\* learning rate, the rank, the preset label, the variant, the output name,
\* or the blocks_to_swap once capped to the variant's maximum; exchanging
\* two samples changes the image_hash when it changes the 8-bit pixel bytes
\* taken one image after the other or the captions joined by "|".
FingerprintSensitiveToContributions ==
    (probe.kind = "pair" /\ Contributes(probe.field, probe.a, probe.b)) =>
        probe.ha # probe.hb

\* Two requests for Klein Base 4B that ask for 0 and 13 blocks have been
\* given different image_hash values.
FingerprintWitness ==
    /\ probe.kind = "pair"
    /\ probe.field = "blocks_to_swap"
    /\ probe.a.model_variant = "Klein Base 4B"
    /\ probe.a.blocks_to_swap = 0
    /\ probe.b.blocks_to_swap = 13
    /\ probe.ha # probe.hb

(***************************************************************************)
(* Repeated calls: SpecDet keeps the inputs and the image_hash of one call  *)
(* and makes further calls at other times and over other cache contents     *)
(***************************************************************************)

DetCalls ==
    {[r |-> [BaseRequest EXCEPT !.output_name = n], e |-> OkEnv] : n \in {"MyLora", ""}}
    \cup {[r |-> [BaseRequest EXCEPT !.training_steps = 500], e |-> OkEnv]}
    \cup {[r |-> FolderRequest, e |-> [OkEnv EXCEPT !.folder = DataFolder, !.mtime = Mtimes(t)]] :
            t \in {1, 2}}

DetNext ==
    \/ runs < MaxRuns /\ \E c \in DetCalls, remember \in BOOLEAN : Call(c.r, c.e, remember)
    \/ StreamEnd
    \/ \E returncode \in {0, 1} : LatentsExit(returncode, TRUE, TRUE)
    \/ \E returncode \in {0, 1} : TeExit(returncode, TRUE)
    \/ \E returncode \in {0, 1} : TrainExit(returncode, "exact", TRUE, TRUE)
    \/ Tick
    \/ \E f \in outFiles : DeleteFile(f)

SpecDet == Init /\ [][DetNext]_vars

MaxCmdRuns == 1

CmdBlocks == {0, 12, 13, 14, 16, 17}

CmdCalls ==
    {[r |-> [BaseRequest EXCEPT !.model_variant = v, !.blocks_to_swap = b, !.vram_mode = m],
      e |-> OkEnv] :
        v \in {"Klein Base 4B", "Klein Base 9B", "Klein Base 2B"},
        b \in CmdBlocks,
        m \in {"Max (1256px)", "Medium (1024px) fp8 offload", "Min (512px)", "Custom"}}

CmdNext ==
    \/ runs < MaxCmdRuns /\ \E c \in CmdCalls : Call(c.r, c.e, FALSE)
    \/ StreamEnd
    \/ LatentsExit(0, TRUE, TRUE)
    \/ TeExit(0, TRUE)
    \/ TrainExit(0, "exact", TRUE, TRUE)

SpecCmd == Init /\ [][CmdNext]_vars

\* The most blocks a variant can swap (l.276); a variant that is not in the
\* catalog is given the dialect of Klein Base 4B (l.338-340).
Ceiling(model_variant) == IF model_variant = "Klein Base 9B" THEN 16 ELSE 13

\* C8 (swap-budget clamp): no command spawned carries a blocks_to_swap above
\* the maximum of the variant, whether the value comes from the request or
\* from the preset; a request at the maximum is passed on as it is and a
\* request of one more is passed on as the maximum.
SwapBudgetClamped ==
    /\ \A i \in DOMAIN spawned :
            \A j \in DOMAIN spawned[i].blocks_to_swap :
                spawned[i].blocks_to_swap[j] <= Ceiling(req.model_variant)
    /\ (Len(spawned) = 3 /\ req.blocks_to_swap \in
            {Ceiling(req.model_variant), Ceiling(req.model_variant) + 1}) =>
                spawned[3].blocks_to_swap = <<Ceiling(req.model_variant)>>

\* The training of Klein Base 9B has been spawned with 16 blocks for a
\* request of 17.
SwapBudgetWitness ==
    /\ Len(spawned) = 3
    /\ req.model_variant = "Klein Base 9B"
    /\ req.blocks_to_swap = 17
    /\ spawned[3].stage = "train"
    /\ spawned[3].blocks_to_swap = <<16>>

(***************************************************************************)
(* The source folder: SpecFolder makes one call over folders of up to six  *)
(* image files, with and without caption files                             *)
(***************************************************************************)

MaxFolderRuns == 1

\* The files a folder may hold besides caption files.
FolderPool ==
    {<<"a", ".png">>, <<"a", ".jpeg">>, <<"b", ".PNG">>, <<"b", ".webp">>,
     <<"c", ".BMP">>, <<"c", ".gif">>}

\* The text of a caption file, or NoCaptionFile for a file that is not there.
NoCaptionFile == <<"?">>

CaptionTexts == {NoCaptionFile, <<"x">>, <<" ", "x", " ">>, << >>}

\* The folder of the files names, with caption files a.txt and c.txt.
FolderOf(names, a_txt, c_txt) ==
    LET captions == {f \in {<<"a", a_txt>>, <<"c", c_txt>>} : f[2] # NoCaptionFile}
    IN  Directory([f \in names \cup {<<c[1], ".txt">> : c \in captions} |->
                      IF f[2] = ".txt"
                      THEN (CHOOSE c \in captions : c[1] = f[1])[2]
                      ELSE << >>])

FolderCalls ==
    {[r |-> FolderRequest, e |-> [OkEnv EXCEPT !.folder = FolderOf(names, a_txt, c_txt)]] :
        names \in SUBSET FolderPool, a_txt \in CaptionTexts, c_txt \in {NoCaptionFile, <<"x">>}}
    \cup {[r |-> [FolderRequest EXCEPT !.slots = s], e |-> [OkEnv EXCEPT !.folder = NotADirectory]] :
            s \in {BaseRequest.slots, NoInputs}}

FolderNext == runs < MaxFolderRuns /\ \E c \in FolderCalls : Call(c.r, c.e, FALSE)

SpecFolder == Init /\ [][FolderNext]_vars

\* The image files of the folder the call was given.
Recognized ==
    {f \in DOMAIN env.folder.files :
        f[2] \in {".png", ".PNG", ".jpg", ".JPG", ".jpeg", ".webp", ".bmp", ".BMP"}}

\* The staged files are those of Recognized, each once, in the order of
\* their names and numbered from 1.
StagedInOrder ==
    /\ Len(temp.files) = Cardinality(Recognized)
    /\ \A i \in DOMAIN temp.files :
            /\ temp.files[i].index = i
            /\ temp.files[i].source \in Recognized
            /\ temp.files[i].ext = temp.files[i].source[2]
    /\ \A i, j \in DOMAIN temp.files :
            i < j => name_less(temp.files[i].source, temp.files[j].source)

\* A call has staged the files of a folder given as images_path.
FolderStaged == temp.made = 1 /\ path_given(req.images_path) /\ env.folder.isdir

\* C9 as stated (directory staging labels): the samples staged from a folder
\* are its N recognized image files in the order of their names, numbered
\* 1..N, the i-th label being the text of the same-stem .txt file if there
\* is one and the default caption if not.
FolderLabelsAsWritten ==
    FolderStaged =>
        /\ StagedInOrder
        /\ \A i \in DOMAIN temp.files :
                LET caption_file == <<temp.files[i].source[1], ".txt">>
                IN  temp.files[i].caption =
                        IF caption_file \in DOMAIN env.folder.files
                        THEN env.folder.files[caption_file]
                        ELSE req.caption

\* The text without the white space at its two ends.
Stripped(text) ==
    LET inner == {i \in DOMAIN text : text[i] # " "}
    IN  IF inner = {} THEN << >>
        ELSE SubSeq(text, CHOOSE i \in inner : \A j \in inner : i <= j,
                          CHOOSE i \in inner : \A j \in inner : j <= i)

\* C9 (amended): the samples staged from a folder that holds at least one
\* recognized image file are its N recognized image files in the order of
\* their names, numbered 1..N, the i-th label being the text of the
\* same-stem .txt file without the white space at its ends if there is such
\* a file, and the default caption if not.
FolderLabelsStripped ==
    (FolderStaged /\ Recognized # {}) =>
        /\ StagedInOrder
        /\ \A i \in DOMAIN temp.files :
                LET caption_file == <<temp.files[i].source[1], ".txt">>
                IN  temp.files[i].caption =
                        IF caption_file \in DOMAIN env.folder.files
                        THEN Stripped(env.folder.files[caption_file])
                        ELSE req.caption

\* Five image files have been staged, two of them under the caption of a.txt
\* read without its spaces and one under the default caption.
FolderLabelsWitness ==
    /\ FolderStaged
    /\ Len(temp.files) = 5
    /\ <<"a", ".txt">> \in DOMAIN env.folder.files
    /\ env.folder.files[<<"a", ".txt">>] = <<" ", "x", " ">>
    /\ temp.files[1].caption = <<"x">>
    /\ temp.files[2].caption = <<"x">>
    /\ temp.files[3].caption = req.caption
    /\ temp.files[3].source = <<"b", ".PNG">>

\* A call has been made with an images_path that is not a directory.
InvalidFolder == runs > 0 /\ path_given(req.images_path) /\ ~env.folder.isdir

\* The images connected to the inputs 1..inputcount of the call.
ConnectedImages ==
    [i \in 1..Cardinality({j \in 1..req.inputcount : req.slots[j].image # NoImage}) |->
        req.slots[CHOOSE j \in 1..req.inputcount :
                    /\ req.slots[j].image # NoImage
                    /\ Cardinality({k \in 1..j : req.slots[k].image # NoImage}) = i].image]

\* C11 as stated (invalid source directory is an input error): a call with
\* an images_path that is not an existing directory ends in an input error
\* with no child process spawned, whether or not images are connected.
InvalidFolderFails ==
    InvalidFolder =>
        /\ result.kind = "error"
        /\ result.what = "no_images"
        /\ spawned = << >>

\* C11 (amended): a call with an images_path that is not an existing
\* directory falls back to the connected images: it ends in the "no images"
\* error, with no child process and no temp directory, only when no image is
\* connected; with an image connected it goes on with the connected images
\* as its samples.
InvalidFolderFallsBack ==
    InvalidFolder =>
        IF ConnectedImages = << >>
        THEN /\ pc = "idle"
             /\ result = Raised("no_images", 0)
             /\ spawned = << >>
             /\ temp.made = 0
        ELSE /\ result.what # "no_images"
             /\ ~loc.key.samples.use_folder_path
             /\ loc.key.samples.images = ConnectedImages
             /\ temp.made = 1
             /\ [i \in DOMAIN temp.files |-> temp.files[i].source] = ConnectedImages

\* A call with a path that is no directory and one connected image has
\* started the latent caching over that image.
InvalidFolderWitness ==
    /\ InvalidFolder
    /\ ConnectedImages # << >>
    /\ pc = "latents_stream"
    /\ Len(spawned) = 1
    /\ Len(temp.files) = 1

(***************************************************************************)
(* The trained file: SpecResolve runs the three stages to a training that   *)
(* exits with 0 and leaves none, one or two files                           *)
(***************************************************************************)

MaxResolveRuns == 2

ResolveCalls ==
    {[r |-> [BaseRequest EXCEPT !.output_name = n, !.keep_lora = k], e |-> OkEnv] :
        n \in {"MyLora", ""}, k \in BOOLEAN}

ResolveNext ==
    \/ runs < MaxResolveRuns /\ \E c \in ResolveCalls : Call(c.r, c.e, FALSE)
    \/ StreamEnd
    \/ LatentsExit(0, TRUE, TRUE)
    \/ TeExit(0, TRUE)
    \/ \E wrote \in {"exact", "alt", "steps", "none"} : TrainExit(0, wrote, TRUE, TRUE)
    \/ \E f \in outFiles : DeleteFile(f)

SpecResolve == Init /\ [][ResolveNext]_vars

\* The files of the output folder whose name starts with the run name.
Candidates ==
    {f \in outFiles : f.base = loc.run_name.base /\ (loc.run_name.ctr = 0 \/ f.ctr = loc.run_name.ctr)}

\* The place of a file name among those of one base, in code-point order:
\* "-" comes before "." and "." before "_".
NameKey(f) ==
    <<IF f.ctr > 0 THEN 3 ELSE IF f.alt > 0 THEN 1 ELSE 2, f.ctr, IF f.alt > 0 THEN f.alt ELSE 9>>

NameLess(f, g) ==
    LET a == NameKey(f)
        b == NameKey(g)
    IN  \/ a[1] < b[1]
        \/ a[1] = b[1] /\ a[2] < b[2]
        \/ a[1] = b[1] /\ a[2] = b[2] /\ a[3] < b[3]

\* C12 (artifact resolution order): the file a run returns after its
\* training is <run_name>.safetensors when that file exists, and otherwise
\* the greatest, in the order of names, of the files of the output folder
\* that start with the run name, whatever order the folder is listed in.
ResolvesGreatest ==
    (pc = "idle" /\ result.kind = "built") =>
        IF safetensors(loc.run_name) \in outFiles
        THEN result.path = safetensors(loc.run_name)
        ELSE /\ result.path \in Candidates
             /\ \A f \in Candidates : f = result.path \/ NameLess(f, result.path)

(***************************************************************************)
(* A training that exits with 0 and leaves no file, under Spec             *)
(***************************************************************************)

\* The step in which the training of a run whose three stages exit with 0
\* returns to an output folder without a file that starts with the run name.
NothingTrained ==
    /\ pc = "train_wait"
    /\ pc' = "idle"
    /\ \A i \in 1..3 : spawned'[i].returncode = 0
    /\ \A f \in outFiles' : ~(f.base = loc.run_name.base /\ (loc.run_name.ctr = 0 \/ f.ctr = loc.run_name.ctr))

\* C13 as stated (resolution failure is surfaced): when the three stages exit
\* with 0 and no file of the output folder starts with the run name, the run
\* fails with the error of the missing LoRA file, records nothing in the
\* cache or its store, returns no path, and its temp directory is removed.
NoLoraSurfaced ==
    [][NothingTrained =>
        /\ result' = Raised("no_lora", 0)
        /\ cache' = cache /\ cacheFile' = cacheFile
        /\ result'.path = NoFile
        /\ ~temp'.exists]_vars

\* C13 (amended): the same, the temp directory being removed unless its
\* removal fails, which is printed as a warning and leaves it in place.
NoLoraSurfacedRemovalTried ==
    [][NothingTrained =>
        /\ result' = Raised("no_lora", 0)
        /\ cache' = cache /\ cacheFile' = cacheFile
        /\ result'.path = NoFile
        /\ temp'.removals = temp.removals + 1
        /\ temp'.exists <=> temp'.warned]_vars

\* A keep_lora run has failed for want of a trained file after three stages
\* that exited with 0; neither the cache nor its store has its image_hash.
NoLoraWitness ==
    /\ pc = "idle"
    /\ req.keep_lora
    /\ result = Raised("no_lora", 0)
    /\ Len(spawned) = 3
    /\ \A i \in 1..3 : spawned[i].returncode = 0
    /\ loc.image_hash \notin DOMAIN cache
    /\ loc.image_hash \notin DOMAIN cacheFile
    /\ ~temp.exists

(***************************************************************************)
(* The settings kept on disk, under Spec                                   *)
(***************************************************************************)

\* What a run that passes the checks of l.407-434 keeps of its arguments:
\* musubi_path as stripped and expanded at l.348, blocks_to_swap as capped
\* at l.343-345.
SettingsOf(r) ==
    [set |-> TRUE, musubi_path |-> expanduser(strip(r.musubi_path)),
     trainer_settings |->
        trainer_settings(r, IF r.blocks_to_swap > variant_config(r.model_variant).max_blocks_to_swap
                            THEN variant_config(r.model_variant).max_blocks_to_swap
                            ELSE r.blocks_to_swap)]

\* The step in which train_flux_klein_lora is called.
Called == pc = "idle" /\ runs' = runs + 1

\* C14 as stated (config persistence): every run that passes the checks of
\* l.407-434 rewrites the config file with its settings and musubi_path,
\* whether it then hits the cache, builds or fails; a run that fails one of
\* these checks leaves the file as it was.  The rest of a run never writes it.
ConfigRewritten ==
    [][IF Called
       THEN IF result'.what \in ValidationErrors
            THEN configFile' = configFile
            ELSE configFile' = SettingsOf(req')
       ELSE configFile' = configFile]_vars

\* C14 (amended): the settings in memory are replaced in every such run; the
\* file follows unless writing it fails, which is swallowed and leaves the
\* file as it was.
ConfigRewrittenUnlessWriteFails ==
    [][IF Called
       THEN IF result'.what \in ValidationErrors
            THEN configFile' = configFile /\ config' = config
            ELSE /\ config' = SettingsOf(req')
                 /\ configFile' = IF env'.save_ok THEN SettingsOf(req') ELSE configFile
       ELSE configFile' = configFile /\ config' = config]_vars

\* The file holds the settings of a run that hit the cache, which differ from
\* the settings of the run before it.
ConfigWitness ==
    /\ pc = "idle"
    /\ runs = 2
    /\ result.kind = "hit"
    /\ configFile = SettingsOf(req)
    /\ req.musubi_path # configFile.musubi_path

(***************************************************************************)
(* Two processes over one cache file: SpecPeers                            *)
(***************************************************************************)

MaxPeerRuns == 3

\* l.67-75, l.171: the module is imported by process p; a file that cannot be
\* parsed leaves the mapping empty.
Import(p, load_ok) ==
    /\ ~peers.proc[p].up
    /\ peers' = [peers EXCEPT !.proc[p] =
                    [up |-> TRUE,
                     cache  |-> IF load_ok THEN cacheFile ELSE << >>,
                     loaded |-> IF load_ok THEN cacheFile ELSE << >>,
                     recorded |-> {}]]
    /\ UNCHANGED <<pc, req, env, config, configFile, loc, cache, cacheFile, outFiles, temp, spawned, result, clock, runs, hist, seen, probe>>

\* A write of the cache file that did not fail, added to those before it.
wrote_store(writers, ok, p, image_hash, kind, mem) ==
    IF ok THEN Append(writers, [p |-> p, image_hash |-> image_hash, kind |-> kind, cache |-> mem])
    ELSE writers

\* l.456-470 and l.714-731 in process p, for a run on a sound installation
\* whose three stages exit with 0 and whose training writes
\* <run_name>.safetensors: what the run does to the mapping of p, to the cache
\* file and to the output folder.
PeerRun(p, r, drop_ok, save_ok) ==
    /\ peers.proc[p].up
    /\ runs < MaxPeerRuns
    /\ LET mem        == peers.proc[p].cache
           samples    == resolve_samples(r, OkEnv.folder)
           image_hash == image_hash_of(r, samples, OkEnv.mtime)
           consulted  == cache_consulted(r, image_hash, mem)
           hit        == consulted /\ cached_file_exists(mem[image_hash], outFiles)
           dangling   == consulted /\ ~hit
           mem1       == IF dangling THEN drop(mem, image_hash) ELSE mem
           file1      == IF dangling THEN save_musubi_cache(mem1, cacheFile, drop_ok) ELSE cacheFile
           writers1   == wrote_store(peers.writers, dangling /\ drop_ok, p, image_hash, "drop", mem1)
           run_name   == pick_run_name(outFiles, base_name(r, image_hash, clock))
           lora_output_path == safetensors(run_name)
           mem2       == IF record_wanted(r)
                         THEN cache_record(mem1, image_hash, lora_output_path)
                         ELSE mem1
       IN  /\ runs' = runs + 1
           /\ IF hit
              THEN UNCHANGED <<peers, cacheFile, outFiles>>
              ELSE /\ outFiles' = outFiles \cup written(run_name, "exact")
                   /\ cacheFile' = IF record_wanted(r)
                                   THEN save_musubi_cache(mem2, file1, save_ok)
                                   ELSE file1
                   /\ peers' = [peers EXCEPT
                                   !.proc[p].cache = mem2,
                                   !.proc[p].recorded = IF record_wanted(r) THEN @ \cup {image_hash} ELSE @,
                                   !.writers = wrote_store(writers1, record_wanted(r) /\ save_ok,
                                                           p, image_hash, "record", mem2)]
    /\ UNCHANGED <<pc, req, env, config, configFile, loc, cache, temp, spawned, result, clock, hist, seen, probe>>

PeerRequests ==
    {[BaseRequest EXCEPT !.training_steps = n, !.keep_lora = k] : n \in {400, 500}, k \in BOOLEAN}

PeersNext ==
    \/ \E p \in Procs, load_ok \in BOOLEAN : Import(p, load_ok)
    \/ \E p \in Procs, r \in PeerRequests, drop_ok, save_ok \in BOOLEAN : PeerRun(p, r, drop_ok, save_ok)
    \/ \E f \in outFiles : DeleteFile(f)

SpecPeers == Init /\ [][PeersNext]_vars

\* C15 (lost update under concurrent writers): the cache file is the mapping
\* of the process that wrote it last, as it was at that write; an entry that
\* another process recorded in the file before is missing from it whenever
\* the last writer neither found that image_hash in the file at its import
\* nor recorded it itself.
LostUpdate ==
    LET n == Len(peers.writers)
    IN  n > 0 =>
            LET q == peers.writers[n].p
            IN  /\ cacheFile = peers.writers[n].cache
                /\ \A i \in 1..n :
                        (/\ peers.writers[i].kind = "record"
                         /\ peers.writers[i].p # q
                         /\ peers.writers[i].image_hash \notin DOMAIN peers.proc[q].loaded
                         /\ peers.writers[i].image_hash \notin peers.proc[q].recorded)
                        => peers.writers[i].image_hash \notin DOMAIN cacheFile

\* Two processes imported the module while the cache file was empty; the
\* first recorded one image_hash, the second another: the file holds the
\* entry of the second alone, the mapping of the first still has its own.
LostUpdateWitness ==
    /\ Len(peers.writers) = 2
    /\ peers.writers[1].p = 1 /\ peers.writers[2].p = 2
    /\ peers.writers[1].kind = "record" /\ peers.writers[2].kind = "record"
    /\ peers.writers[1].image_hash # peers.writers[2].image_hash
    /\ peers.proc[1].loaded = << >> /\ peers.proc[2].loaded = << >>
    /\ peers.writers[1].image_hash \in DOMAIN peers.proc[1].cache
    /\ cacheFile = peers.proc[2].cache
    /\ DOMAIN cacheFile = {peers.writers[2].image_hash}

(***************************************************************************)
(* The checks of the installation, under Spec                              *)
(***************************************************************************)

\* The interpreter the stages of the call are run with is on disk.
InterpreterExists ==
    IF python_path_of(req) = "venv_python" THEN env.venv_python ELSE env.custom_python

\* The call went as far as choosing its interpreter (l.544-550).
ReachedInterpreter ==
    /\ temp.made = 1
    /\ env.staging_ok

\* C16 (environment checks gate each stage): a stage is started only with
\* its interpreter or launcher and its script on disk, and Popen is never
\* called with one of them missing: a run that gets as far as a stage whose
\* interpreter, launcher or script is missing fails on the check of that
\* path, before the child process of the stage is started.
EnvironmentGated ==
    /\ result.what # "popen"
    /\ (pc = "idle" /\ ReachedInterpreter /\ ~InterpreterExists) =>
            /\ result.kind = "error"
            /\ result.what \in {"custom_python", "venv_python"}
            /\ spawned = << >>
    /\ (pc = "idle" /\ ReachedInterpreter /\ InterpreterExists /\ ~env.latents_script) =>
            /\ result = Raised("latents_script", 0)
            /\ spawned = << >>
    /\ spawned # << >> =>
            /\ InterpreterExists
            /\ env.latents_script
    /\ Len(spawned) = 3 => env.accelerate /\ env.train_script

(***************************************************************************)
(* The cache and the installation, under Spec                              *)
(***************************************************************************)

\* The image_hash of the call that is being made.
CalledHash == image_hash_of(req', resolve_samples(req', env'.folder), env'.mtime)

\* A call with keep_lora is made whose samples and model files are found
\* and whose image_hash is in the cache with a file that is on disk.
CalledOnEntry ==
    /\ Called
    /\ req'.keep_lora
    /\ ~InputError(req', env')
    /\ CalledHash \in DOMAIN cache
    /\ cache[CalledHash] \in outFiles

\* C17 as stated (cache hit returns immediately): such a call returns the
\* cached file straight after the cache check, without a temp directory or
\* a child process, whether or not accelerate and the training script are
\* on disk.
HitWhateverInstallation ==
    [][CalledOnEntry =>
        /\ pc' = "idle"
        /\ result' = Returned("hit", cache[CalledHash])
        /\ spawned' = << >>
        /\ temp'.made = 0]_vars

\* C17 (amended): such a call returns the cached file at once when
\* accelerate and the training script are on disk, whatever the rest of
\* the installation is like; when one of the two is missing it fails on the
\* check of l.426-429, before the cache is looked at, and leaves the cache
\* as it was.
HitOnceInstallationChecked ==
    [][CalledOnEntry =>
        /\ pc' = "idle"
        /\ spawned' = << >>
        /\ temp'.made = 0
        /\ cache' = cache /\ cacheFile' = cacheFile
        /\ result' = IF ~env'.accelerate THEN Raised("accelerate", 0)
                     ELSE IF ~env'.train_script THEN Raised("train_script", 0)
                     ELSE Returned("hit", cache[CalledHash])]_vars

\* A second call has returned the cached file although the interpreter of
\* the installation is missing.
HitWitness ==
    /\ pc = "idle"
    /\ runs = 2
    /\ result.kind = "hit"
    /\ result.path \in outFiles
    /\ req.custom_python_exe = ""
    /\ ~env.venv_python
    /\ env.accelerate /\ env.train_script

(***************************************************************************)
(* One child process at a time, under Spec                                 *)
(***************************************************************************)

\* The child processes that have not exited.
Alive(procs) == {i \in 1..Len(procs) : procs[i].returncode = Missing}

\* C18 (no overlapping stages): at most one child process is alive, and it
\* is the one started last; none is alive between calls; a stage is started
\* after the one before it only once the output of that one has been read
\* to its end and it has exited with 0.
NoOverlap ==
    [][/\ Alive(spawned') \subseteq {Len(spawned')}
       /\ pc' = "idle" => Alive(spawned') = {}
       /\ \A i \in 1..(Len(spawned') - 1) : spawned'[i].returncode = 0
       /\ pc' \in {"latents_wait", "te_wait", "train_wait"} =>
            /\ pc = CASE pc' = "latents_wait" -> "latents_stream"
                      [] pc' = "te_wait"      -> "te_stream"
                      [] OTHER                -> "train_stream"
            /\ spawned' = spawned
       /\ Len(spawned') > 1 /\ spawned' # spawned /\ Alive(spawned') # {} =>
            /\ pc \in {"latents_wait", "te_wait"}
            /\ Len(spawned') = Len(spawned) + 1
            /\ Alive(spawned) = {Len(spawned)}
            /\ spawned'[Len(spawned)].returncode = 0]_vars

\* The training runs, after the two caching stages have exited with 0.
NoOverlapWitness ==
    /\ pc = "train_stream"
    /\ Len(spawned) = 3
    /\ spawned[1].returncode = 0
    /\ spawned[2].returncode = 0
    /\ Alive(spawned) = {3}

(***************************************************************************)
(* Every run ends: SpecLive, where every child process closes its output   *)
(* and exits                                                               *)
(***************************************************************************)

\* A child process that runs closes its output, and wait() returns, with some
\* exit code and some outcome of what the call does next.
ChildExits ==
    \/ \E returncode \in ExitCodes, te_script, rm_ok \in BOOLEAN :
            LatentsExit(returncode, te_script, rm_ok)
    \/ \E returncode \in ExitCodes, rm_ok \in BOOLEAN : TeExit(returncode, rm_ok)
    \/ \E returncode \in ExitCodes, wrote \in {"exact", "alt", "none"}, save_ok, rm_ok \in BOOLEAN :
            TrainExit(returncode, wrote, save_ok, rm_ok)

SpecLive == Spec /\ WF_vars(StreamEnd) /\ WF_vars(ChildExits)

\* The call has returned a cached file, returned a trained file, or raised.
Ended == pc = "idle" /\ result.kind \in {"hit", "built", "error"}

\* C19 as stated (run termination): every call ends, in one of three ways:
\* a cached file returned, a trained file returned, or an error raised; and
\* once it has ended its temp directory is not on disk.
RunEnds ==
    /\ [](runs > 0 => <>Ended)
    /\ []((pc = "idle" /\ runs > 0) => (Ended /\ ~temp.exists))

\* C19 (amended): every call ends in one of the three ways; once it has
\* ended, the temp directory it made is not on disk unless its one removal
\* failed, which was printed as a warning.
RunEndsRemovalTried ==
    /\ [](runs > 0 => <>Ended)
    /\ []((pc = "idle" /\ runs > 0) =>
            /\ Ended
            /\ temp.made = 1 => temp.removals = 1
            /\ temp.exists => temp.warned)

\* A call has ended on the failure of the text-encoder caching, its temp
\* directory removed.
RunEndsWitness ==
    /\ pc = "idle"
    /\ result.kind = "error"
    /\ result.what = "stage_te"
    /\ Len(spawned) = 2
    /\ temp.made = 1
    /\ ~temp.exists

(***************************************************************************)
(* The blocks_to_swap of the training, under SpecCmd                       *)
(***************************************************************************)

Least(a, b) == IF a < b THEN a ELSE b

\* The value l.677-681 are to give: the blocks_to_swap of the request, capped,
\* when it is positive, the default of the preset otherwise; capped again.
EffectiveOf(r) ==
    LET asked == Least(r.blocks_to_swap, Ceiling(r.model_variant))
    IN  Least(IF asked > 0 THEN asked ELSE preset_of(r.vram_mode).blocks_to_swap,
              Ceiling(r.model_variant))

SingleSource ==
    loc.key # NoKey =>
        LET samples == loc.key.samples
        IN  /\ Len(samples.images) > 0
            /\ Len(samples.captions) = Len(samples.images)
            /\ IF path_given(req.images_path) /\ env.folder.isdir /\ Recognized # {}
               THEN /\ samples.use_folder_path
                    /\ {samples.images[i] : i \in DOMAIN samples.images} = Recognized
                    /\ Len(samples.images) = Cardinality(Recognized)
               ELSE /\ ~samples.use_folder_path
                    /\ samples.images = ConnectedImages

\* A call with a connected image and a folder of three image files has taken
\* its three samples from the folder.
SingleSourceWitness ==
    /\ loc.key # NoKey
    /\ req.slots[1].image # NoImage
    /\ Cardinality(Recognized) = 3
    /\ loc.key.samples.use_folder_path
    /\ Len(loc.key.samples.images) = 3
    /\ Len(temp.files) = 3

(***************************************************************************)
(* The image inputs: SpecInline makes one call over three inputs, each      *)
(* connected or not, with or without a caption of its own                  *)
(***************************************************************************)

MaxInlineRuns == 1

\* What input i of the call may be: image_i and caption_i, each connected or not.
SlotChoices(i) ==
    {[image |-> img, caption |-> cap] :
        img \in {NoImage, <<100 * i>>}, cap \in {<< >>, <<"c", i>>}}

InlineCalls ==
    {[r |-> [BaseRequest EXCEPT !.slots = <<s1, s2, s3>>, !.inputcount = n], e |-> OkEnv] :
        s1 \in SlotChoices(1), s2 \in SlotChoices(2), s3 \in SlotChoices(3), n \in 1..3}

InlineNext == runs < MaxInlineRuns /\ \E c \in InlineCalls : Call(c.r, c.e, FALSE)

SpecInline == Init /\ [][InlineNext]_vars

\* The inputs 1..inputcount of the call that have an image.
ConnectedSlots == {j \in 1..req.inputcount : req.slots[j].image # NoImage}

\* The k-th of them.
SlotOf(k) == CHOOSE j \in ConnectedSlots : Cardinality({i \in ConnectedSlots : i <= j}) = k

\* C22 (inline label alignment): the files staged from the image inputs are
\* the connected inputs 1..inputcount in their order; the k-th is written as
\* image_<k>.png with image_<k>.txt next to it, which holds the caption of the
\* same input when there is one and the default caption when there is none.
InlineLabelsAligned ==
    (temp.made = 1 /\ ~loc.key.samples.use_folder_path) =>
        /\ Len(temp.files) = Cardinality(ConnectedSlots)
        /\ \A k \in DOMAIN temp.files :
                /\ temp.files[k].index = k
                /\ temp.files[k].ext = ".png"
                /\ temp.files[k].source = req.slots[SlotOf(k)].image
                /\ temp.files[k].caption =
                        IF req.slots[SlotOf(k)].caption # << >>
                        THEN req.slots[SlotOf(k)].caption
                        ELSE req.caption

\* Inputs 1 and 3 are connected and input 2 is not, though it has a caption:
\* the second staged file is image_3 under the caption of input 3, the first
\* is image_1 under the default caption.
InlineLabelsWitness ==
    /\ temp.made = 1
    /\ req.inputcount = 3
    /\ req.slots[1] = [image |-> <<100>>, caption |-> << >>]
    /\ req.slots[2] = [image |-> NoImage, caption |-> <<"c", 2>>]
    /\ req.slots[3] = [image |-> <<300>>, caption |-> <<"c", 3>>]
    /\ Len(temp.files) = 2
    /\ temp.files[1].caption = req.caption
    /\ temp.files[2].source = <<300>>
    /\ temp.files[2].caption = <<"c", 3>>

(***************************************************************************)
(* The three commands of one run, under Spec                               *)
(***************************************************************************)

\* C23 (stage coherence): the commands of one run carry the same
\* --dataset_config and the same --model_version; the training carries the
\* --vae of the latent caching and the --text_encoder of the text-encoder
\* caching.
StagesCoherent ==
    /\ \A i, j \in DOMAIN spawned :
            /\ spawned[i].dataset_config = spawned[j].dataset_config
            /\ spawned[i].model_version = spawned[j].model_version
    /\ Len(spawned) = 3 =>
            /\ spawned[1].stage = "cache_latents"
            /\ spawned[2].stage = "cache_te"
            /\ spawned[3].stage = "train"
            /\ spawned[3].vae = spawned[1].vae
            /\ spawned[3].vae # NonePath
            /\ spawned[3].text_encoder = spawned[2].text_encoder
            /\ spawned[3].text_encoder # NonePath

\* The training has been started with a text encoder that is found in the
\* clip folder alone.
StagesCoherentWitness ==
    /\ Len(spawned) = 3
    /\ req.text_encoder = "qwen3_clip.safetensors"
    /\ get_model_path(req.text_encoder, "text_encoders") # spawned[3].text_encoder
    /\ spawned[3].text_encoder = spawned[2].text_encoder
    /\ spawned[3].dataset_config = spawned[1].dataset_config

(***************************************************************************)
(* The cache file and the cache in memory, under Spec                      *)
(***************************************************************************)

\* C24 as stated (persisted cache tracks memory): between calls the cache
\* file holds the mapping that is in memory.
CacheFileTracksMemory == pc = "idle" => cacheFile = cache

\* C24 (amended): the cache file is only ever written with the whole mapping
\* of the memory, and every change of that mapping, an entry recorded or
\* dropped, is followed in the same step of the run by one such write; the
\* file then holds the mapping, unless the write fails, which leaves the
\* file as it was.  env.save_ok tells whether the last write went through.
CacheFileRewritten ==
    [][/\ cacheFile' # cacheFile => cacheFile' = cache'
       /\ cache' # cache => cacheFile' = IF env'.save_ok THEN cache' ELSE cacheFile]_vars

\* Two runs have recorded their files, and the cache file holds both entries.
CacheFileWitness ==
    /\ pc = "idle"
    /\ runs = 2
    /\ result.kind = "built"
    /\ Cardinality(DOMAIN cache) = 2
    /\ cacheFile = cache
    /\ cache[loc.image_hash] = result.path

(***************************************************************************)
(* What gets into the cache, under Spec                                    *)
(***************************************************************************)

\* The image_hash values whose entry the step adds or changes.
Recorded == {h \in DOMAIN cache' : h \notin DOMAIN cache \/ cache'[h] # cache[h]}

\* C25 (failed runs never record): an entry gets into the cache only in the
\* step that ends a run whose three stages have exited with 0, under the
\* image_hash of that run and with the file the run returns, which is in the
\* output folder at that moment; a step that ends a run in an error adds or
\* changes no entry.
RecordsOnlyBuilt ==
    [][/\ Recorded # {} =>
            /\ pc = "train_wait"
            /\ Len(spawned') = 3
            /\ \A i \in 1..3 : spawned'[i].returncode = 0
            /\ result'.kind = "built"
            /\ Recorded = {loc.image_hash}
            /\ cache'[loc.image_hash] = result'.path
            /\ result'.path \in outFiles'
       /\ result'.kind = "error" => Recorded = {}
       /\ pc' # "idle" => Recorded = {}]_vars

\* A second run with keep_lora has failed in its training; the cache holds
\* the entry of the first run and none for the second.
RecordsOnlyBuiltWitness ==
    /\ pc = "idle"
    /\ runs = 2
    /\ req.keep_lora
    /\ result.kind = "error"
    /\ result.what = "stage_train"
    /\ Cardinality(DOMAIN cache) = 1
    /\ loc.image_hash \notin DOMAIN cache

(***************************************************************************)
(* The file a build returns, under Spec                                    *)
(***************************************************************************)

\* C26 (returned artifact is fresh): the file a run returns after its
\* training, and records when it records, was not in the output folder when
\* the run chose its name; while the run lasts, <run_name>.safetensors is not
\* a file that was there before it.
BuiltIsFresh ==
    [][/\ (pc = "train_wait" /\ result'.kind = "built") =>
            /\ result'.path \notin outFiles
            /\ (req.keep_lora => cache'[loc.image_hash] \notin outFiles)
       /\ pc' # "idle" => safetensors(loc'.run_name) \notin outFiles']_vars

(***************************************************************************)
(* Runs without keep_lora, under Spec                                      *)
(***************************************************************************)

\* C27 (keep_lora off bypasses the cache): no step of a run without
\* keep_lora changes the cache or the cache file, and such a run returns no
\* cached file, not even when its image_hash is in the cache with a file that
\* is on disk.
NoKeepBypassesCache ==
    [][/\ (Called /\ ~req'.keep_lora) =>
            /\ cache' = cache /\ cacheFile' = cacheFile
            /\ result'.kind # "hit"
       /\ (pc # "idle" /\ ~req.keep_lora) =>
            /\ cache' = cache /\ cacheFile' = cacheFile
            /\ result'.kind # "hit"]_vars

\* A run without keep_lora has built a file of its own although its
\* image_hash is in the cache with a file that is on disk; the entry is as
\* it was.
NoKeepWitness ==
    /\ pc = "idle"
    /\ runs = 2
    /\ ~req.keep_lora
    /\ result.kind = "built"
    /\ loc.image_hash \in DOMAIN cache
    /\ cache[loc.image_hash] \in outFiles
    /\ cache[loc.image_hash] # result.path
    /\ cacheFile = cache

(***************************************************************************)
(* The run name and the dialect, under SpecCmd                             *)
(***************************************************************************)

\* The --model_version and the most blocks to swap that go with a suffix of
\* the run name.
DialectOf(suffix) ==
    IF suffix = "4b"
    THEN [model_version |-> "klein-base-4b", max_blocks_to_swap |-> 13]
    ELSE [model_version |-> "klein-base-9b", max_blocks_to_swap |-> 16]

\* C28 (run-name suffix matches the dialect): for every model_variant, in the
\* catalog or not, the 4b or 9b of the run name goes with the
\* --model_version of the three commands and with the maximum blocks_to_swap
\* is capped to.
SuffixMatchesDialect ==
    spawned # << >> =>
        LET dialect == DialectOf(loc.run_name.base.suffix)
        IN  /\ loc.run_name.base.suffix \in {"4b", "9b"}
            /\ \A i \in DOMAIN spawned : spawned[i].model_version = dialect.model_version
            /\ loc.blocks_to_swap = Least(req.blocks_to_swap, dialect.max_blocks_to_swap)

====
